---- MODULE Spec2Model ----
(***************************************************************************)
(* Model of the YouTube catalogue fetcher: the HTTP wrapper                *)
(* youtube_get_data_by_url, the Channel Resolver, the Playlist Paginator,  *)
(* the Video Enricher, the Comment Sampler (src/youtube_scrappers.py) and  *)
(* the entry point main (src/run_roast_improve.py).                        *)
(*                                                                         *)
(* The upstream API is the environment.  It is fixed by the initial state  *)
(* (the playlist's pages, the videos that vanished, the comment threads)   *)
(* and by the outcome of each HTTP exchange, drawn in the action that      *)
(* issues it: "ok", "bad_status" (resp.ok is false) or "conn_error"        *)
(* (requests.get raises: timeout, connection failure).                     *)
(***************************************************************************)
EXTENDS Integers, Sequences, FiniteSets, TLC

VARIABLES
    apiKey,          \* os.getenv("YOUTUBE_API_KEY"): "unset", "empty" or "set"
    pc,              \* position of the running call
    requests,        \* HTTP requests issued so far, in order (history)
    respToks,        \* nextPageToken of each playlistItems response (history)
    archiveWrites,   \* number of ./data/youtube_get_<endpoint>.json writes
    playlist,        \* upstream: the playlist's pages, each a list of video ids
    lastTok,         \* upstream: nextPageToken of the last page (absent or "")
    max_videos_num,  \* argument of get_all_video_ids_from_playlist
    video_ids,       \* accumulator / argument video_ids
    page_token,      \* local page_token of the paginator
    gone,            \* upstream: ids the videos endpoint omits
    commentNet,      \* upstream: outcome of the commentThreads call per probed id
    threads,         \* upstream: comment threads of a video
    chunkIdx,        \* index of the next chunk of get_video_details
    all_videos,      \* accumulator of get_video_details
    max_topLevelComments, \* argument of get_comments_by_video_id
    max_replies,     \* argument of get_comments_by_video_id
    comments,        \* result of get_comments_by_video_id
    channelOk,       \* upstream: the channels lookup finds the channel
    channelIdSet,    \* os.getenv("YT_CHANNEL_ID") is non-empty
    finalWrites,     \* number of writes of data/videos_raw.json
    entry            \* the function the run entered through

vars == <<apiKey, pc, requests, respToks, archiveWrites, playlist, lastTok,
          max_videos_num, video_ids, page_token, gone, commentNet, threads,
          chunkIdx, all_videos, max_topLevelComments, max_replies, comments,
          channelOk, channelIdSet, finalWrites, entry>>

----
\* Bounds of the model.
MaxPages == 3
MaxPageLen == 2
MaxId == 2
MaxCap == 4
MaxN == 101          \* longest id list handed to get_video_details
MaxThreads == 3      \* most comment threads a video has upstream
MaxUpReplies == 3    \* most replies the API inlines in a thread
MaxTopCap == 3       \* largest max_topLevelComments tried
MaxReplyCap == 3     \* largest max_replies tried

\* Program constants and encodings.
NoCap == -1          \* max_videos_num = None
NoToken == 0         \* nextPageToken absent / page_token = None
EmptyToken == -1     \* nextPageToken = ""
PageSize == 50       \* maxResults of playlistItems and videos
DefaultTop == 20     \* default max_topLevelComments
DefaultReplies == 2  \* default max_replies

Keys == {"unset", "empty", "set"}
Nets == {"ok", "bad_status", "conn_error"}

RECURSIVE Flatten(_)
Flatten(pages) ==
    IF pages = <<>> THEN <<>> ELSE Head(pages) \o Flatten(Tail(pages))

SeqsUpTo(S, n) == UNION {[1..k -> S] : k \in 0..n}
NonEmptySeqsUpTo(S, n) == UNION {[1..k -> S] : k \in 1..n}

----
\* youtube_get_data_by_url

\* `if not api_key`
KeyMissingNoEmpty(k) == k = "unset"
KeyMissing(k) == k \in {"unset", "empty"}

\* What the call does for the caller: "ok" (returns resp.json()),
\* "YouTubeAPIError" or "RequestException".
GetResult(k, net) ==
    IF KeyMissing(k) THEN "YouTubeAPIError"
    ELSE IF net = "conn_error" THEN "RequestException"
    ELSE IF net = "bad_status" THEN "YouTubeAPIError"
    ELSE "ok"

\* requests.get is reached only with a credential.
Sent(k, log, req) == IF KeyMissing(k) THEN log ELSE Append(log, req)

\* save_videos_to_json(resp.json(), ...) runs only for an ok response.
Archived(k, net, n) == IF GetResult(k, net) = "ok" THEN n + 1 ELSE n

----
\* get_all_video_ids_from_playlist

Truthy(tok) == tok > 0

\* Upstream: the page a request with this pageToken is answered with.
PageOf(tok) == IF tok = NoToken THEN 1 ELSE tok
NextTokenOf(idx) == IF idx < Len(playlist) THEN idx + 1 ELSE lastTok

\* The for loop over data.get("items", []): append, stop at the cap.
RECURSIVE AppendItemsRev(_, _, _)
AppendItemsRev(acc, items, cap) ==
    IF items = <<>> THEN [ids |-> acc, ret |-> FALSE]
    ELSE LET a == <<Head(items)>> \o acc
         IN  IF cap # NoCap /\ Len(a) >= cap
             THEN [ids |-> a, ret |-> TRUE]
             ELSE AppendItemsRev(a, Tail(items), cap)

RECURSIVE AppendItems(_, _, _)
AppendItems(acc, items, cap) ==
    IF items = <<>> THEN [ids |-> acc, ret |-> FALSE]
    ELSE LET a == Append(acc, Head(items))
         IN  IF cap # NoCap /\ Len(a) >= cap
             THEN [ids |-> a, ret |-> TRUE]
             ELSE AppendItems(a, Tail(items), cap)

\* `if page_token: params["pageToken"] = page_token`
TokenParam(tok) == IF Truthy(tok) THEN tok ELSE NoToken

\* One iteration of `while True`.
PlaylistPage ==
    /\ pc = "paginate"
    /\ \E net \in Nets :
        LET res  == GetResult(apiKey, net)
            sent == TokenParam(page_token)
            idx  == PageOf(sent)
            step == AppendItems(video_ids, playlist[idx], max_videos_num)
            tok  == NextTokenOf(idx)
        IN  /\ requests' = Sent(apiKey, requests,
                  [endpoint |-> "playlistItems", arg |-> sent,
                   have |-> Len(video_ids)])
            /\ archiveWrites' = Archived(apiKey, net, archiveWrites)
            /\ IF res # "ok"
               THEN /\ pc' = "pag_" \o res
                    /\ UNCHANGED <<video_ids, page_token, respToks>>
               ELSE /\ respToks' = Append(respToks, tok)
                    /\ video_ids' = step.ids
                    /\ IF step.ret
                       THEN /\ pc' = "pag_returned"
                            /\ UNCHANGED page_token
                       ELSE /\ page_token' = tok
                            /\ pc' = IF Truthy(tok) THEN "paginate"
                                     ELSE "pag_returned"
    /\ UNCHANGED <<apiKey, playlist, lastTok, max_videos_num, gone,
                   commentNet, threads, chunkIdx, all_videos,
                   max_topLevelComments, max_replies, comments, channelOk,
                   channelIdSet, finalWrites, entry>>

\* Upstream playlists: every way of cutting up to MaxPages * MaxPageLen
\* videos into a chain of pages (empty pages included), with the ids numbered
\* in playlist order upwards, downwards, or alternating so that ids repeat.
RECURSIVE SumSeq(_)
SumSeq(q) == IF q = <<>> THEN 0 ELSE Head(q) + SumSeq(Tail(q))

IdModes == {"asc", "desc", "dup"}

IdAt(g, total, mode) ==
    IF mode = "asc" THEN g
    ELSE IF mode = "desc" THEN total + 1 - g
    ELSE ((g - 1) % 2) + 1

Numbered(lens, mode) ==
    [k \in DOMAIN lens |->
        [j \in 1..lens[k] |->
            IdAt(SumSeq(SubSeq(lens, 1, k - 1)) + j, SumSeq(lens), mode)]]

Playlists ==
    {Numbered(lens, mode) :
        lens \in NonEmptySeqsUpTo(0..MaxPageLen, MaxPages), mode \in IdModes}

InitPag ==
    /\ entry = "get_all_video_ids_from_playlist"
    /\ apiKey \in Keys
    /\ pc = "paginate"
    /\ requests = <<>>
    /\ respToks = <<>>
    /\ archiveWrites = 0
    /\ playlist \in Playlists
    /\ lastTok \in {NoToken, EmptyToken}
    /\ max_videos_num \in {NoCap} \cup 0..MaxCap
    /\ video_ids = <<>>
    /\ page_token = NoToken
    /\ gone = {}
    /\ commentNet = <<>>
    /\ threads = <<>>
    /\ chunkIdx = 1
    /\ all_videos = <<>>
    /\ max_topLevelComments = 0
    /\ max_replies = 0
    /\ comments = <<>>
    /\ channelOk = TRUE
    /\ channelIdSet = TRUE
    /\ finalWrites = 0

NextPag == PlaylistPage

SpecPag == InitPag /\ [][NextPag]_vars

\* C1: a call without a cap that returns, returns the concatenation of the
\* video ids of all pages, page by page and in response order.
C1_UncappedIsConcatenation ==
    (pc = "pag_returned" /\ max_videos_num = NoCap)
        => video_ids = Flatten(playlist)

C1_Witness ==
    /\ pc = "pag_returned"
    /\ max_videos_num = NoCap
    /\ Len(playlist) >= 2
    /\ Len(requests) = Len(playlist)
    /\ Len(video_ids) >= 3
    /\ video_ids[1] # video_ids[Len(video_ids)]

\* C2: with a cap smaller than the playlist size the call returns exactly
\* max_videos_num ids, the first max_videos_num ids of the uncapped result
\* (which is Flatten(playlist), see C1).
C2_CappedIsPrefix ==
    (/\ pc = "pag_returned"
     /\ max_videos_num # NoCap
     /\ max_videos_num < Len(Flatten(playlist)))
        => /\ Len(video_ids) = max_videos_num
           /\ video_ids = SubSeq(Flatten(playlist), 1, max_videos_num)

\* C9: no playlistItems request is issued once the accumulated count has
\* reached the cap or a response carried no continuation token, and every
\* request after the first carries the token of the preceding response.
C9_NoRequestAfterStop ==
    \A i \in DOMAIN requests :
        /\ max_videos_num = NoCap \/ requests[i].have < max_videos_num
        /\ i = 1 => requests[i].arg = NoToken
        /\ i > 1 => /\ Truthy(respToks[i - 1])
                    /\ requests[i].arg = respToks[i - 1]

\* C10: a failed page request makes the call fail with YouTubeAPIError,
\* whichever page it happens on; nothing is returned and no request follows.
C10_PageFailureIsAPIError ==
    pc \in {"pag_YouTubeAPIError", "pag_RequestException"}
        => pc = "pag_YouTubeAPIError"

----
\* get_comments_by_video_id

Min(a, b) == IF a < b THEN a ELSE b
Max(a, b) == IF a > b THEN a ELSE b

\* Python's s[:n]
SlicePrefixOffByOne(s, n) == SubSeq(s, 1, Min(n + 1, Len(s)))
SlicePrefix(s, n) ==
    IF n >= 0 THEN SubSeq(s, 1, Min(n, Len(s)))
    ELSE SubSeq(s, 1, Max(0, Len(s) + n))

\* Upstream: commentThreads answers with at most maxResults threads, in its
\* own order.
ServeThreads(maxResults) ==
    SubSeq(threads, 1, Min(Max(maxResults, 0), Len(threads)))

\* "maxResults": max_topLevelComments
MaxResultsParam(top) == top

\* The body of the loop over data.get("items", []).
ThreadOf(item, reps) ==
    [topLevelComment |-> item.top, replies |-> SlicePrefix(item.replies, reps)]

SampleThreads(items, reps) ==
    [i \in DOMAIN items |-> ThreadOf(items[i], reps)]

GetComments ==
    /\ pc = "comments"
    /\ \E net \in Nets :
        LET res == GetResult(apiKey, net)
        IN  /\ requests' = Sent(apiKey, requests,
                  [endpoint |-> "commentThreads",
                   arg |-> MaxResultsParam(max_topLevelComments),
                   have |-> 0])
            /\ archiveWrites' = Archived(apiKey, net, archiveWrites)
            /\ IF res # "ok"
               THEN /\ pc' = "com_" \o res
                    /\ UNCHANGED comments
               ELSE /\ pc' = "com_returned"
                    /\ comments' = SampleThreads(
                          ServeThreads(MaxResultsParam(max_topLevelComments)),
                          max_replies)
    /\ UNCHANGED <<apiKey, respToks, playlist, lastTok, max_videos_num,
                   video_ids, page_token, gone, commentNet, threads, chunkIdx,
                   all_videos, max_topLevelComments, max_replies, channelOk,
                   channelIdSet, finalWrites, entry>>

InitCom ==
    /\ entry = "get_comments_by_video_id"
    /\ apiKey \in Keys
    /\ pc = "comments"
    /\ requests = <<>>
    /\ respToks = <<>>
    /\ archiveWrites = 0
    /\ playlist = <<>>
    /\ lastTok = NoToken
    /\ max_videos_num = NoCap
    /\ video_ids = <<>>
    /\ page_token = NoToken
    /\ gone = {}
    /\ commentNet = <<>>
    /\ \E n \in 0..MaxThreads :
          \E r \in SeqsUpTo(1..MaxId, MaxUpReplies) :
              threads = [i \in 1..n |-> [top |-> i, replies |-> r]]
    /\ chunkIdx = 1
    /\ all_videos = <<>>
    /\ max_topLevelComments \in 0..MaxTopCap
    /\ max_replies \in 0..MaxReplyCap
    /\ comments = <<>>
    /\ channelOk = TRUE
    /\ channelIdSet = TRUE
    /\ finalWrites = 0

NextCom == GetComments

SpecCom == InitCom /\ [][NextCom]_vars

\* C7: the returned list has at most max_topLevelComments threads, and each
\* thread holds at most max_replies replies, the first ones the API returned,
\* in the API's order.
C7_CommentCaps ==
    pc = "com_returned" =>
        /\ Len(comments) <= max_topLevelComments
        /\ Len(comments) <= Len(threads)
        /\ \A i \in DOMAIN comments :
              /\ comments[i].topLevelComment = threads[i].top
              /\ Len(comments[i].replies) <= max_replies
              /\ Len(comments[i].replies) <= Len(threads[i].replies)
              /\ \A j \in DOMAIN comments[i].replies :
                    comments[i].replies[j] = threads[i].replies[j]
              /\ Len(comments[i].replies) < max_replies
                    => Len(comments[i].replies) = Len(threads[i].replies)

C7_Witness ==
    /\ pc = "com_returned"
    /\ Len(threads) > max_topLevelComments
    /\ Len(comments) = max_topLevelComments
    /\ Len(comments) >= 2
    /\ max_replies >= 1
    /\ Len(threads[1].replies) > max_replies
    /\ Len(comments[1].replies) = max_replies

----
\* chunked and get_video_details (src/youtube_scrappers.py)

\* Python's lst[i : j] for 0 <= i <= j
Slice(lst, i, j) == SubSeq(lst, i + 1, Min(j, Len(lst)))

\* [lst[i : i + size] for i in range(0, len(lst), size)]
RECURSIVE ChunkedFrom(_, _, _)
ChunkedFrom(lst, size, i) ==
    IF i >= Len(lst) THEN <<>>
    ELSE <<Slice(lst, i, i + size)>> \o ChunkedFrom(lst, size, i + size)

ChunkedDropShort(lst, size) ==
    SelectSeq(ChunkedFrom(lst, size, 0), LAMBDA c : Len(c) = size)
Chunked(lst, size) == ChunkedFrom(lst, size, 0)

\* Upstream: the videos endpoint answers with one item per requested id it
\* still knows, in the order of the request.
ServeVideos(chunk) == SelectSeq(chunk, LAMBDA v : v \notin gone)

\* Upstream: outcome of the commentThreads exchange for a video.
CommentNetOf(v) == IF v \in DOMAIN commentNet THEN commentNet[v] ELSE "ok"

\* try: comments = get_comments_by_video_id(item["id"])
\* except YouTubeAPIError: comments = []
CommentsOrEmpty(res) ==
    IF res = "ok"
    THEN SampleThreads(ServeThreads(MaxResultsParam(DefaultTop)),
                       DefaultReplies)
    ELSE <<>>

\* all_videos.append(video)
AddVideoFront(acc, video) == <<video>> \o acc
AddVideo(acc, video) == Append(acc, video)

\* The loop over the items of one videos response.  st carries all_videos,
\* the request log, the archive count and the exception that ended the loop.
RECURSIVE DetailItems(_, _)
DetailItems(st, items) ==
    IF items = <<>> \/ st.err # "none" THEN st
    ELSE LET v   == Head(items)
             net == CommentNetOf(v)
             res == GetResult(apiKey, net)
             log == Sent(apiKey, st.log,
                         [endpoint |-> "commentThreads", arg |-> <<v>>,
                          have |-> Len(st.videos)])
             arc == Archived(apiKey, net, st.arc)
         IN  IF res = "RequestException"
             THEN [st EXCEPT !.log = log, !.arc = arc, !.err = res]
             ELSE DetailItems(
                      [st EXCEPT !.log = log, !.arc = arc,
                          !.videos = AddVideo(st.videos,
                              [id |-> v, comments |-> CommentsOrEmpty(res)])],
                      Tail(items))

\* One iteration of `for chunk in chunked(video_ids, 50)`; the loop's exit
\* when no chunk is left.
VideosChunk ==
    /\ pc = "enrich"
    /\ chunkIdx <= Len(Chunked(video_ids, PageSize))
    /\ \E net \in Nets :
        LET chunk == Chunked(video_ids, PageSize)[chunkIdx]
            res   == GetResult(apiKey, net)
            log   == Sent(apiKey, requests,
                          [endpoint |-> "videos", arg |-> chunk,
                           have |-> Len(all_videos)])
            arc   == Archived(apiKey, net, archiveWrites)
            st    == DetailItems([videos |-> all_videos, log |-> log,
                                  arc |-> arc, err |-> "none"],
                                 ServeVideos(chunk))
        IN  IF res # "ok"
            THEN /\ pc' = "enr_" \o res
                 /\ requests' = log
                 /\ archiveWrites' = arc
                 /\ UNCHANGED <<all_videos, chunkIdx>>
            ELSE /\ requests' = st.log
                 /\ archiveWrites' = st.arc
                 /\ IF st.err # "none"
                    THEN /\ pc' = "enr_" \o st.err
                         /\ UNCHANGED <<all_videos, chunkIdx>>
                    ELSE /\ all_videos' = st.videos
                         /\ chunkIdx' = chunkIdx + 1
                         /\ pc' = "enrich"
    /\ UNCHANGED <<apiKey, respToks, playlist, lastTok, max_videos_num,
                   video_ids, page_token, gone, commentNet, threads,
                   max_topLevelComments, max_replies, comments, channelOk,
                   channelIdSet, finalWrites, entry>>

VideosReturn ==
    /\ pc = "enrich"
    /\ chunkIdx > Len(Chunked(video_ids, PageSize))
    /\ pc' = "enr_returned"
    /\ UNCHANGED <<apiKey, requests, respToks, archiveWrites, playlist,
                   lastTok, max_videos_num, video_ids, page_token, gone,
                   commentNet, threads, chunkIdx, all_videos,
                   max_topLevelComments, max_replies, comments, channelOk,
                   channelIdSet, finalWrites, entry>>

\* The ids whose upstream behaviour the initial state varies: the two sides
\* of the first batch boundary.
Probes == {PageSize, PageSize + 1}

ExampleThreads ==
    <<[top |-> 1, replies |-> <<1, 2, 1>>], [top |-> 2, replies |-> <<>>]>>

InitEnr ==
    /\ entry = "get_video_details"
    /\ apiKey \in Keys
    /\ pc = "enrich"
    /\ requests = <<>>
    /\ respToks = <<>>
    /\ archiveWrites = 0
    /\ playlist = <<>>
    /\ lastTok = NoToken
    /\ max_videos_num = NoCap
    /\ \E n \in 0..MaxN :
          \/ video_ids = [i \in 1..n |-> i]
          \/ video_ids = [i \in 1..n |-> n + 1 - i]
    /\ page_token = NoToken
    /\ gone \in SUBSET Probes
    /\ commentNet \in [Probes -> Nets]
    /\ threads = ExampleThreads
    /\ chunkIdx = 1
    /\ all_videos = <<>>
    /\ max_topLevelComments = DefaultTop
    /\ max_replies = DefaultReplies
    /\ comments = <<>>
    /\ channelOk = TRUE
    /\ channelIdSet = TRUE
    /\ finalWrites = 0

NextEnr == VideosChunk \/ VideosReturn

SpecEnr == InitEnr /\ [][NextEnr]_vars

Ids(videos) == [i \in DOMAIN videos |-> videos[i].id]
Range(f) == {f[i] : i \in DOMAIN f}
Last(q) == q[Len(q)]
VideosRequests == SelectSeq(requests, LAMBDA r : r.endpoint = "videos")

\* a is b with some elements left out.
RECURSIVE IsSubseq(_, _)
IsSubseq(a, b) ==
    IF a = <<>> THEN TRUE
    ELSE IF b = <<>> THEN FALSE
    ELSE IF Head(a) = Head(b) THEN IsSubseq(Tail(a), Tail(b))
    ELSE IsSubseq(a, Tail(b))

\* C3: a failed commentThreads request never ends get_video_details: the
\* call fails only on a videos request, and when it returns, every video the
\* API served has its record, with comments = [] where the comment fetch
\* failed.
C3_CommentFailureIsolated ==
    /\ pc \in {"enr_YouTubeAPIError", "enr_RequestException"}
          => (requests = <<>> \/ Last(requests).endpoint = "videos")
    /\ pc = "enr_returned"
          => /\ Ids(all_videos) = ServeVideos(video_ids)
             /\ \A i \in DOMAIN all_videos :
                   CommentNetOf(all_videos[i].id) # "ok"
                       => all_videos[i].comments = <<>>

\* C6: the ids of the records are the input ids with some left out, in the
\* input's order, within a batch and across batches; nothing is left out
\* when the API omits no id.
C6_RecordsInInputOrder ==
    /\ IsSubseq(Ids(all_videos), video_ids)
    /\ pc = "enr_returned"
          => /\ Len(all_videos) <= Len(video_ids)
             /\ (gone \cap Range(video_ids) = {}
                    => Ids(all_videos) = video_ids)

C6_Witness ==
    /\ pc = "enr_returned"
    /\ Len(video_ids) > PageSize + 1
    /\ video_ids[1] > video_ids[2]
    /\ gone \cap Range(video_ids) # {}
    /\ Len(all_videos) > PageSize
    /\ Len(all_videos) < Len(video_ids)

\* C8: chunked(video_ids, 50) has ceil(N / 50) groups, all of 50 ids but the
\* last, which has between 1 and 50; the groups concatenated are the input;
\* the videos requests are one per group, in order.
C8_ChunksAndRequests ==
    LET ch == Chunked(video_ids, PageSize)
        n  == Len(video_ids)
        vr == VideosRequests
    IN  /\ Len(ch) = (n + PageSize - 1) \div PageSize
        /\ \A k \in 1..(Len(ch) - 1) : Len(ch[k]) = PageSize
        /\ Len(ch) > 0 => Len(Last(ch)) \in 1..PageSize
        /\ Flatten(ch) = video_ids
        /\ Len(vr) <= Len(ch)
        /\ \A i \in DOMAIN vr : vr[i].arg = ch[i]
        /\ pc = "enr_returned" => Len(vr) = Len(ch)

C8_Witness ==
    /\ pc = "enr_returned"
    /\ Len(video_ids) > 2 * PageSize
    /\ Len(VideosRequests) = 3
    /\ Len(Last(VideosRequests).arg) < PageSize

----
\* main, get_uploads_by_playlist_id and get_video_details of
\* src/run_roast_improve.py

\* ensure_data_dir_exists(); `if not channel_id: raise SystemExit`
MainStart ==
    /\ pc = "main_start"
    /\ pc' = IF channelIdSet THEN "resolve" ELSE "main_SystemExit"
    /\ UNCHANGED <<apiKey, requests, respToks, archiveWrites, playlist,
                   lastTok, max_videos_num, video_ids, page_token, gone,
                   commentNet, threads, chunkIdx, all_videos,
                   max_topLevelComments, max_replies, comments, channelOk,
                   channelIdSet, finalWrites, entry>>

\* get_uploads_by_playlist_id: one channels request; an empty items list is
\* a YouTubeAPIError.
Resolve ==
    /\ pc = "resolve"
    /\ \E net \in Nets :
        LET res == GetResult(apiKey, net)
        IN  /\ requests' = Sent(apiKey, requests,
                  [endpoint |-> "channels", arg |-> NoToken, have |-> 0])
            /\ archiveWrites' = Archived(apiKey, net, archiveWrites)
            /\ pc' = IF res # "ok" THEN "res_" \o res
                     ELSE IF ~channelOk THEN "res_YouTubeAPIError"
                     ELSE "paginate"
    /\ UNCHANGED <<apiKey, respToks, playlist, lastTok, max_videos_num,
                   video_ids, page_token, gone, commentNet, threads, chunkIdx,
                   all_videos, max_topLevelComments, max_replies, comments,
                   channelOk, channelIdSet, finalWrites, entry>>

\* `if not video_ids: raise SystemExit`, which `except Exception` lets pass.
AfterPaginate ==
    /\ entry = "main"
    /\ pc = "pag_returned"
    /\ pc' = IF video_ids = <<>> THEN "main_SystemExit" ELSE "details"
    /\ UNCHANGED <<apiKey, requests, respToks, archiveWrites, playlist,
                   lastTok, max_videos_num, video_ids, page_token, gone,
                   commentNet, threads, chunkIdx, all_videos,
                   max_topLevelComments, max_replies, comments, channelOk,
                   channelIdSet, finalWrites, entry>>

\* One iteration of the chunk loop of get_video_details: no comment fetch in
\* this file's version.
DetailsChunk ==
    /\ pc = "details"
    /\ chunkIdx <= Len(Chunked(video_ids, PageSize))
    /\ \E net \in Nets :
        LET chunk == Chunked(video_ids, PageSize)[chunkIdx]
            res   == GetResult(apiKey, net)
            items == ServeVideos(chunk)
        IN  /\ requests' = Sent(apiKey, requests,
                  [endpoint |-> "videos", arg |-> chunkIdx,
                   have |-> Len(all_videos)])
            /\ archiveWrites' = Archived(apiKey, net, archiveWrites)
            /\ IF res # "ok"
               THEN /\ pc' = "det_" \o res
                    /\ UNCHANGED <<all_videos, chunkIdx>>
               ELSE /\ all_videos' =
                          all_videos \o [i \in DOMAIN items |-> [id |-> items[i]]]
                    /\ chunkIdx' = chunkIdx + 1
                    /\ pc' = "details"
    /\ UNCHANGED <<apiKey, respToks, playlist, lastTok, max_videos_num,
                   video_ids, page_token, gone, commentNet, threads,
                   max_topLevelComments, max_replies, comments, channelOk,
                   channelIdSet, finalWrites, entry>>

DetailsReturn ==
    /\ pc = "details"
    /\ chunkIdx > Len(Chunked(video_ids, PageSize))
    /\ pc' = "save"
    /\ UNCHANGED <<apiKey, requests, respToks, archiveWrites, playlist,
                   lastTok, max_videos_num, video_ids, page_token, gone,
                   commentNet, threads, chunkIdx, all_videos,
                   max_topLevelComments, max_replies, comments, channelOk,
                   channelIdSet, finalWrites, entry>>

\* save_videos_to_json(videos, data_dir / "videos_raw.json")
Save ==
    /\ pc = "save"
    /\ finalWrites' = finalWrites + 1
    /\ pc' = "main_saved"
    /\ UNCHANGED <<apiKey, requests, respToks, archiveWrites, playlist,
                   lastTok, max_videos_num, video_ids, page_token, gone,
                   commentNet, threads, chunkIdx, all_videos,
                   max_topLevelComments, max_replies, comments, channelOk,
                   channelIdSet, entry>>

APIErrorPcs ==
    {"res_YouTubeAPIError", "pag_YouTubeAPIError", "det_YouTubeAPIError"}
OtherErrorPcs ==
    {"res_RequestException", "pag_RequestException", "det_RequestException"}

\* except YouTubeAPIError / except Exception: print and fall off the end.
HandlerSavesAnyway(p) == "save"
Handler(p) ==
    IF p \in APIErrorPcs THEN "main_api_error" ELSE "main_unexpected_error"

Catch ==
    /\ entry = "main"
    /\ pc \in APIErrorPcs \cup OtherErrorPcs
    /\ pc' = Handler(pc)
    /\ UNCHANGED <<apiKey, requests, respToks, archiveWrites, playlist,
                   lastTok, max_videos_num, video_ids, page_token, gone,
                   commentNet, threads, chunkIdx, all_videos,
                   max_topLevelComments, max_replies, comments, channelOk,
                   channelIdSet, finalWrites, entry>>

InitMain ==
    /\ entry = "main"
    /\ apiKey \in Keys
    /\ pc = "main_start"
    /\ requests = <<>>
    /\ respToks = <<>>
    /\ archiveWrites = 0
    /\ playlist \in Playlists
    /\ lastTok \in {NoToken, EmptyToken}
    /\ max_videos_num = NoCap
    /\ video_ids = <<>>
    /\ page_token = NoToken
    /\ gone \in SUBSET (1..MaxId)
    /\ commentNet = <<>>
    /\ threads = <<>>
    /\ chunkIdx = 1
    /\ all_videos = <<>>
    /\ max_topLevelComments = 0
    /\ max_replies = 0
    /\ comments = <<>>
    /\ channelOk \in BOOLEAN
    /\ channelIdSet \in BOOLEAN
    /\ finalWrites = 0

NextMain ==
    \/ MainStart
    \/ Resolve
    \/ PlaylistPage
    \/ AfterPaginate
    \/ DetailsChunk
    \/ DetailsReturn
    \/ Save
    \/ Catch

SpecMain == InitMain /\ [][NextMain]_vars

FailedPcs ==
    APIErrorPcs \cup OtherErrorPcs
        \cup {"main_api_error", "main_unexpected_error", "main_SystemExit"}

\* C5: videos_raw.json is written only after the Resolver, the Paginator and
\* the Enricher have all completed; a run in which one of them failed never
\* writes it.
C5_NoOutputOnFailure ==
    /\ pc \in FailedPcs => finalWrites = 0
    /\ finalWrites > 0
          => /\ pc = "main_saved"
             /\ finalWrites = 1
             /\ video_ids = Flatten(playlist)
             /\ chunkIdx > Len(Chunked(video_ids, PageSize))
             /\ Ids(all_videos) = ServeVideos(video_ids)
             /\ Len(requests) = Len(playlist) + 2
             /\ archiveWrites = Len(requests)

C5_WitnessFailed ==
    /\ pc = "main_unexpected_error"
    /\ Len(requests) >= 4
    /\ Last(requests).endpoint = "videos"
    /\ finalWrites = 0

----
\* Every entry point at once.

InitAll == InitPag \/ InitCom \/ InitEnr \/ InitMain

NextAll ==
    \/ PlaylistPage
    \/ GetComments
    \/ VideosChunk
    \/ VideosReturn
    \/ MainStart
    \/ Resolve
    \/ AfterPaginate
    \/ DetailsChunk
    \/ DetailsReturn
    \/ Save
    \/ Catch

SpecAll == InitAll /\ [][NextAll]_vars

\* C4: with YOUTUBE_API_KEY unset or empty, no HTTP request is ever issued
\* and no archive file written; every call of youtube_get_data_by_url raises
\* YouTubeAPIError, so no stage returns or fails in another way.
C4_NoRequestWithoutKey ==
    apiKey \in {"unset", "empty"}
        => /\ requests = <<>>
           /\ archiveWrites = 0
           /\ finalWrites = 0
           /\ pc \in {"paginate", "comments", "enrich", "main_start",
                      "resolve", "main_SystemExit", "main_api_error",
                      "pag_YouTubeAPIError", "com_YouTubeAPIError",
                      "enr_YouTubeAPIError", "res_YouTubeAPIError",
                      "enr_returned"}
           /\ pc = "enr_returned" => video_ids = <<>>

C4_Witness ==
    /\ apiKey = "empty"
    /\ pc = "main_api_error"
    /\ channelOk
    /\ requests = <<>>

====
